---- MODULE Spec2Model ----
(***************************************************************************)
(* Model of DP_Hypothesis_Testing.ipynb, Example 2: the client-side binary *)
(* search that estimates the maximum of a private column with k noisy      *)
(* comparison queries (`(pdf > current_value).mean(eps)`).                 *)
(*                                                                         *)
(* Numbers.  current_value and step_size are Python floats (binary64).     *)
(* Every value of a run is a dyadic rational, so the model stores a value  *)
(* v as the integer v * Unit and applies the format's rounding rule        *)
(* (round to nearest, ties to even, on MantBits significant bits) after    *)
(* every arithmetic operation.  binary64 keeps 53 significant bits and the *)
(* notebook runs 64 rounds over [-2^32, 2^32]; the model keeps the rule    *)
(* and scales the sizes down (MantBits bits, at most MaxK rounds, bounds   *)
(* of 2^DomainBits) so that, as in the notebook, the integers of the       *)
(* domain are exact floats with bits to spare while the later rounds of a  *)
(* run use a step smaller than the spacing of the floats around the        *)
(* estimate.                                                               *)
(* The exponent range of binary64 is never approached by a run and is not  *)
(* modelled.                                                               *)
(*                                                                         *)
(* Oracle answers and the threshold t are in hundredths (t = 0.02 -> 2).   *)
(*                                                                         *)
(* Example 1 (the date-format checks mapped over the "Dates" column) is    *)
(* modelled at the end: a Python str is a sequence of one-character        *)
(* strings, and the checks are translated statement by statement.          *)
(***************************************************************************)
EXTENDS Integers, Sequences, FiniteSets

\* ---------------------------------------------------------------- bounds
MaxK == 5            \* largest k of a run with a noisy oracle
NoiselessMaxK == 12  \* largest k of a run with a noiseless oracle
MantBits == 4        \* significant bits of the scaled float format
DomainBits == 2      \* the scaled 32 of LOWER_BOUND = -2**32, UPPER_BOUND = 2**32
MaxTokens == 5       \* most tokens a value of the "Dates" column is made of

\* ------------------------------------------------------- program constants
eps == 2             \* eps = 0.02, in hundredths
t == 2               \* t = 0.02, in hundredths

\* ------------------------------------------------------------- arithmetic
Max(a, b) == IF a >= b THEN a ELSE b

Abs(n) == IF n < 0 THEN -n ELSE n

RECURSIVE Pow2(_)
Pow2(n) == IF n <= 0 THEN 1 ELSE 2 * Pow2(n - 1)

\* number of fractional bits of the fixed-point carrier: enough for the
\* step after the last halving of the longest run to be a whole number
FracBits == Max(MaxK, NoiselessMaxK) + 2

Unit == Pow2(FracBits)

\* the scaled 2**32
HalfWidth == Pow2(DomainBits)

RECURSIVE BitLen(_)
BitLen(m) == IF m = 0 THEN 0 ELSE 1 + BitLen(m \div 2)

\* round a non-negative magnitude to MantBits significant bits,
\* to nearest, ties to the even significand
RoundMag(m) ==
    IF BitLen(m) <= MantBits THEN m
    ELSE LET q    == Pow2(BitLen(m) - MantBits)
             sig  == m \div q
             rest == m - sig * q
         IN  IF 2 * rest < q THEN sig * q
             ELSE IF 2 * rest > q THEN (sig + 1) * q
             ELSE IF sig % 2 = 0 THEN sig * q
             ELSE (sig + 1) * q

\* the float nearest to the exact value n
Fl(n) == IF n < 0 THEN -RoundMag(-n) ELSE RoundMag(n)

FAdd(a, b) == Fl(a + b)

FSub(a, b) == Fl(a - b)

\* ------------------------------------------------------------------ state
VARIABLES LOWER_BOUND, UPPER_BOUND, k, current_value, step_size, i, result,
          pc, inflight, queries, answers, surfaced, trueMax,
          date, known_date

\* the state of Example 1: a value of the "Dates" column and what
\* applymap(combine_known_dates) made of it
dateVars == <<date, known_date>>

\* the state of Example 2
loopVars == <<LOWER_BOUND, UPPER_BOUND, k, current_value, step_size, i,
              result, pc, inflight, queries, answers, surfaced, trueMax>>

vars == <<LOWER_BOUND, UPPER_BOUND, k, current_value, step_size, i, result,
          pc, inflight, queries, answers, surfaced, trueMax,
          date, known_date>>

\* known_date before applymap has run
NotApplied == -1

\* Example 1 is not part of the run
DatesIdle == date = <<>> /\ known_date = NotApplied

\* the loop variable before the first iteration binds it
NoRound == -1

\* `result` before the first answer
NoResult == -1

\* the domains a run is configured with: the notebook's symmetric one,
\* other valid ones, and ones with lower >= upper
Domains == { <<-HalfWidth, HalfWidth>>, <<0, HalfWidth>>,
             <<-1, HalfWidth - 1>>, <<-HalfWidth, HalfWidth \div 2>>,
             <<HalfWidth, HalfWidth>>, <<HalfWidth, -HalfWidth>> }

\* the values of k a run is configured with
Rounds == -1 .. MaxK

\* the answers of a noisy oracle: below, at and above the threshold t
Results == {0, 2, 3, 100}

\* the true maximum of the dataset of a run with a noisy oracle
SampleMax == -3

\* variant: the estimate starts at the midpoint of the domain
InitialEstimateMidpoint(lo, up) == ((lo + up) * Unit) \div 2

\* current_value = 0
InitialEstimate(lo, up) == 0

\* variant: the first step is an eighth of the width
InitialStepEighth(lo, up) == Fl(Fl((up - lo) * Unit) \div 8)

\* step_size = (UPPER_BOUND - LOWER_BOUND) / 4.0
InitialStep(lo, up) == Fl(Fl((up - lo) * Unit) \div 4)

InitWith(ks, maxes) ==
    /\ \E d \in Domains :
         /\ LOWER_BOUND = d[1]
         /\ UPPER_BOUND = d[2]
         /\ trueMax \in maxes[d]
    /\ k \in ks
    /\ current_value = InitialEstimate(LOWER_BOUND, UPPER_BOUND)
    /\ step_size = InitialStep(LOWER_BOUND, UPPER_BOUND)
    /\ i = NoRound
    /\ result = NoResult
    /\ pc = "loop"
    /\ inflight = <<>>
    /\ queries = <<>>
    /\ answers = <<>>
    /\ surfaced = [kind |-> "nothing"]

Init == InitWith(Rounds, [d \in Domains |-> {SampleMax}]) /\ DatesIdle

\* ---------------------------------------------------------------- actions
\* variant: the loop runs one index too far
RangeHasNextInclusive(idx, n) == idx + 1 <= n

\* for i in range(k): is there a next index?
RangeHasNext(idx, n) == idx + 1 < n

\* variant: later rounds are queried with a smaller epsilon
EpsOfQueryDecaying(idx) == IF idx = 0 THEN eps ELSE eps - 1

\* the epsilon passed to test.mean(eps) in round idx
EpsOfQuery(idx) == eps

\* test = pdf > current_value; test.mean(eps) is sent to the remote engine
Query ==
    /\ pc = "loop"
    /\ RangeHasNext(i, k)
    /\ i' = i + 1
    /\ inflight' = Append(inflight, current_value)
    /\ queries' = Append(queries, [threshold |-> current_value,
                                   eps |-> EpsOfQuery(i + 1)])
    /\ pc' = "wait"
    /\ UNCHANGED <<LOWER_BOUND, UPPER_BOUND, k, current_value, step_size,
                   result, answers, surfaced, trueMax>>
    /\ UNCHANGED dateVars

\* range(k) is exhausted: the cell ends
Exit ==
    /\ pc = "loop"
    /\ ~RangeHasNext(i, k)
    /\ pc' = "done"
    /\ UNCHANGED <<LOWER_BOUND, UPPER_BOUND, k, current_value, step_size, i,
                   result, inflight, queries, answers, surfaced, trueMax>>
    /\ UNCHANGED dateVars

\* variant: the next query is issued without applying the answer
AfterAnswerSkipUpdate == "loop"

\* where control goes when test.mean(eps) returns: the if/else below it
AfterAnswer == "update"

\* result = test.mean(eps) returns r
Answered(r) ==
    /\ pc = "wait"
    /\ result' = r
    /\ answers' = Append(answers, r)
    /\ inflight' = Tail(inflight)
    /\ pc' = AfterAnswer
    /\ UNCHANGED <<LOWER_BOUND, UPPER_BOUND, k, current_value, step_size, i,
                   queries, surfaced, trueMax>>
    /\ UNCHANGED dateVars

Reply == \E r \in Results : Answered(r)

\* variant: the exception is swallowed and the loop goes on
AfterRaiseContinue == "loop"

\* where control goes when test.mean(eps) raises: the loop has no
\* try/except, so the exception leaves the cell
AfterRaise == "aborted"

\* what the cell shows the caller when test.mean(eps) raises: the
\* engine's exception, as raised
Traceback == [kind |-> "exception"]

\* test.mean(eps) raises
Raise ==
    /\ pc = "wait"
    /\ inflight' = Tail(inflight)
    /\ pc' = AfterRaise
    /\ surfaced' = Traceback
    /\ UNCHANGED <<LOWER_BOUND, UPPER_BOUND, k, current_value, step_size, i,
                   result, queries, answers, trueMax>>
    /\ UNCHANGED dateVars

\* if result[0] > t: current_value + step_size  else: current_value - step_size
Moved(c, s, r) == IF r > t THEN FAdd(c, s) ELSE FSub(c, s)

\* variant: the step is quartered
HalveStepQuarter(s) == Fl(s \div 4)

\* step_size = step_size/2.
HalveStep(s) == Fl(s \div 2)

Update ==
    /\ pc = "update"
    /\ current_value' = Moved(current_value, step_size, result)
    /\ step_size' = HalveStep(step_size)
    /\ pc' = "loop"
    /\ UNCHANGED <<LOWER_BOUND, UPPER_BOUND, k, i, result, inflight, queries,
                   answers, surfaced, trueMax>>
    /\ UNCHANGED dateVars

Next == Query \/ Exit \/ Reply \/ Raise \/ Update

Spec == Init /\ [][Next]_vars

\* ------------------------------------------------------- noiseless oracle
\* the values of k of a run with a noiseless oracle
NoiselessRounds == 1 .. NoiselessMaxK

\* the column holds integers (df.astype(int)) inside the declared domain
TrueMaxes == [d \in Domains |-> d[1] .. d[2]]

\* exactly 1.0 when the true maximum exceeds the threshold, 0.0 otherwise
NoiselessAnswer(m, threshold) == IF m * Unit > threshold THEN 100 ELSE 0

InitNoiseless == InitWith(NoiselessRounds, TrueMaxes) /\ DatesIdle

ReplyNoiseless == Answered(NoiselessAnswer(trueMax, inflight[1]))

NextNoiseless == Query \/ Exit \/ ReplyNoiseless \/ Raise \/ Update

SpecNoiseless == InitNoiseless /\ [][NextNoiseless]_vars

\* ------------------------------------------------------------- vocabulary
ValidDomain == LOWER_BOUND < UPPER_BOUND

ValidConfig == ValidDomain /\ k >= 1

\* rounds whose update has been applied
RoundsCompleted == IF pc \in {"loop", "done"} THEN i + 1 ELSE i

TypeOK ==
    /\ <<LOWER_BOUND, UPPER_BOUND>> \in Domains
    /\ k \in -1 .. Max(MaxK, NoiselessMaxK)
    /\ current_value \in Int
    /\ step_size \in Int
    /\ i \in NoRound .. Max(MaxK, NoiselessMaxK)
    /\ pc \in {"loop", "wait", "update", "done", "aborted"}
    /\ Len(queries) = Len(answers) + Len(inflight)
           + (IF pc = "aborted" THEN 1 ELSE 0)

\* ------------------------------------------------------- claim vocabulary
\* (upper - lower), in carrier units
WidthUnits == (UPPER_BOUND - LOWER_BOUND) * Unit

\* (upper - lower)/4 / 2^j as an exact real, in carrier units
ExactStep(j) == WidthUnits \div Pow2(j + 2)

SymmetricDomain == LOWER_BOUND = -HalfWidth /\ UPPER_BOUND = HalfWidth

RECURSIVE SumEps(_)
SumEps(qs) == IF qs = <<>> THEN 0 ELSE Head(qs).eps + SumEps(Tail(qs))

\* total privacy spend of the queries issued so far, in hundredths
Spend == SumEps(queries)

\* ----------------------------------------------------------------- claims
\* C1: for a valid domain and k >= 1 a run never issues more than k oracle
\* queries, and a run that ends has issued and had answered exactly k of
\* them, whatever the answers were.
C1_ExactlyKCalls ==
    ValidConfig =>
        /\ Len(queries) <= k
        /\ (pc = "done" => Len(queries) = k /\ Len(answers) = k)

C1_Witness ==
    /\ ValidConfig
    /\ pc = "done"
    /\ k = MaxK
    /\ Len(queries) = MaxK
    /\ \E a, b \in 1 .. Len(answers) : answers[a] > t /\ answers[b] <= t

\* C2 (as stated): with rounds indexed 0..k-1, once round i is over the
\* step equals (upper-lower)/4 / 2^i.
C2_StepAfterRound ==
    (ValidDomain /\ pc \in {"loop", "done"} /\ i >= 0) =>
        step_size = ExactStep(i)

\* C2 (amended): the step in effect during round i equals
\* (upper-lower)/4 / 2^i and the step left by round i equals
\* (upper-lower)/4 / 2^(i+1), whatever the answers; every change of the
\* step is an exact halving, and the round index only ever moves from one
\* index to the next, from 0 up to k-1.
C2_StepInRound ==
    /\ [](ValidDomain =>
            /\ step_size > 0
            /\ step_size * Pow2(RoundsCompleted + 2) = WidthUnits
            /\ (pc \in {"wait", "update"} =>
                    /\ i \in 0 .. k - 1
                    /\ step_size = ExactStep(i))
            /\ (pc \in {"loop", "done"} /\ i >= 0 =>
                    step_size = ExactStep(i + 1)))
    /\ [][ValidDomain =>
            /\ (step_size' = step_size \/ 2 * step_size' = step_size)
            /\ (i' = i \/ i' = i + 1)
            /\ (pc = "update" => 2 * step_size' = step_size)]_vars

C2_Witness ==
    /\ ValidDomain
    /\ pc = "done"
    /\ k = MaxK
    /\ i = MaxK - 1
    /\ step_size = ExactStep(MaxK)

\* C3: with a noiseless oracle and the true maximum inside the symmetric
\* domain, the value a run of k rounds ends with is within
\* (upper-lower)/2^(k+1) of the true maximum.
C3_NoiselessPrecision ==
    (SymmetricDomain /\ pc = "done") =>
        Abs(trueMax * Unit - current_value) <= WidthUnits \div Pow2(k + 1)

C3_Witness ==
    /\ SymmetricDomain
    /\ pc = "done"
    /\ k >= 10
    /\ trueMax = SampleMax
    /\ Abs(trueMax * Unit - current_value) <= WidthUnits \div Pow2(k + 1)

\* C4 (as stated): a run configured with k < 1 or with lower >= upper never
\* issues an oracle query and never ends as a completed run.
C4_InvalidConfigurationRejected ==
    (k < 1 \/ LOWER_BOUND >= UPPER_BOUND) =>
        /\ Len(queries) = 0
        /\ pc # "done"

\* C5: once the oracle call of a round has failed the run is aborted with
\* the exception surfaced: the failed query is the last one issued, it is
\* not answered, nothing is in flight, and from then on no query is issued,
\* the estimate does not change and the run never ends as completed.
C5_OracleFailureAborts ==
    /\ [](surfaced.kind = "exception" =>
            /\ pc = "aborted"
            /\ inflight = <<>>
            /\ Len(queries) = i + 1
            /\ Len(answers) = i)
    /\ [][surfaced.kind = "exception" =>
            /\ pc' = "aborted"
            /\ queries' = queries
            /\ answers' = answers
            /\ current_value' = current_value]_vars

C5_Witness ==
    /\ pc = "aborted"
    /\ surfaced.kind = "exception"
    /\ k = MaxK
    /\ i = 2
    /\ Len(queries) = 3
    /\ Len(answers) = 2

\* C6 (as stated): an aborted run reports the number of rounds completed
\* before the failure (or that number plus one).
C6_AbortReportsRounds ==
    pc = "aborted" =>
        /\ "roundsCompleted" \in DOMAIN surfaced
        /\ surfaced.roundsCompleted \in {i, i + 1}

\* C7: every query is issued with the same epsilon, so the spend so far is
\* the number of queries times epsilon, and a run of k >= 1 rounds that
\* ends has spent exactly k * epsilon whatever the answers were.
C7_NonAdaptiveBudget ==
    /\ \A j \in 1 .. Len(queries) : queries[j].eps = eps
    /\ Spend = Len(queries) * eps
    /\ (pc = "done" /\ k >= 1 => Spend = k * eps)

C7_Witness ==
    /\ pc = "done"
    /\ k = MaxK
    /\ Spend = MaxK * eps
    /\ answers[1] > t
    /\ answers[2] = t

\* C8 (as stated): the update of a round changes the estimate by exactly
\* the current step, upwards if result > t and downwards otherwise.
C8_MovesByStep ==
    [][(ValidDomain /\ pc = "update") =>
          current_value' = current_value
              + (IF result > t THEN step_size ELSE -step_size)]_vars

\* C9: at most one query is in flight; a query is issued only when every
\* earlier answer has been applied; the first threshold is the initial
\* estimate and the threshold of each later round is the previous
\* threshold moved by the previous round's step according to the previous
\* round's answer.
C9_Sequential ==
    /\ Len(inflight) <= 1
    /\ Len(queries) <= RoundsCompleted + 1
    /\ (inflight # <<>> =>
            /\ pc = "wait"
            /\ inflight[1] = current_value
            /\ queries[Len(queries)].threshold = current_value)
    /\ (queries # <<>> =>
            queries[1].threshold = InitialEstimate(LOWER_BOUND, UPPER_BOUND))
    /\ \A j \in 1 .. Len(queries) - 1 :
            /\ j <= Len(answers)
            /\ queries[j + 1].threshold =
                   Moved(queries[j].threshold, ExactStep(j - 1), answers[j])

C9_Witness ==
    /\ ValidDomain
    /\ pc = "wait"
    /\ Len(queries) = 3
    /\ Len(inflight) = 1
    /\ answers = <<3, 2>>
    /\ queries[3].threshold # queries[1].threshold

\* C10 (as stated): before its first query a run has the estimate at the
\* midpoint (lower+upper)/2 and the step at (upper-lower)/4, and the first
\* threshold queried is the midpoint.
C10_StartsAtMidpoint ==
    ValidDomain =>
        /\ (i = NoRound =>
                /\ 2 * current_value = (LOWER_BOUND + UPPER_BOUND) * Unit
                /\ 4 * step_size = WidthUnits)
        /\ (queries # <<>> =>
                2 * queries[1].threshold = (LOWER_BOUND + UPPER_BOUND) * Unit)

\* C10 (amended): before its first query a run has the estimate at 0,
\* whatever the domain, and the step at (upper-lower)/4, and the first
\* threshold queried is 0; this is the midpoint of the domain when
\* lower = -upper, as for [-2^32, 2^32].
C10_StartsAtZero ==
    ValidDomain =>
        /\ (i = NoRound =>
                /\ current_value = 0
                /\ 4 * step_size = WidthUnits
                /\ (LOWER_BOUND = -UPPER_BOUND =>
                        2 * current_value = (LOWER_BOUND + UPPER_BOUND) * Unit))
        /\ (queries # <<>> => queries[1].threshold = 0)

C10_Witness ==
    /\ SymmetricDomain
    /\ pc = "wait"
    /\ i = 0
    /\ queries = <<[threshold |-> 0, eps |-> eps]>>
    /\ 2 * step_size = HalfWidth * Unit

\* C11 (as stated): when the run starts at the midpoint of a valid domain,
\* the estimate is strictly inside (lower, upper) after every round, and
\* after n rounds it is within (upper-lower)/2 * (1 - 2^-n) of the midpoint.
C11_StaysStrictlyInside ==
    (ValidDomain /\ LOWER_BOUND = -UPPER_BOUND) =>
        /\ LOWER_BOUND * Unit < current_value
        /\ current_value < UPPER_BOUND * Unit
        /\ Abs(current_value) <=
               (WidthUnits \div 2)
                   - ((WidthUnits \div 2) \div Pow2(RoundsCompleted))

\* C12 (as stated): the estimate a run ends with is strictly above the
\* threshold of every round that moved it up and strictly below the
\* threshold of every round that moved it down.
C12_DecisionsNeverUndone ==
    (ValidDomain /\ pc = "done") =>
        \A j \in 1 .. Len(answers) :
            IF answers[j] > t
            THEN current_value > queries[j].threshold
            ELSE current_value < queries[j].threshold

\* ------------------------------------------------- Example 1: date formats
Digits == {"0", "1", "2", "3", "4", "5", "6", "7", "8", "9"}

\* str.isdigit(): non-empty and every character a digit
isdigit(x) == Len(x) > 0 /\ \A j \in 1 .. Len(x) : x[j] \in Digits

\* sep in x
Contains(x, sep) ==
    \E j \in 1 .. (Len(x) - Len(sep) + 1) :
        SubSeq(x, j, j + Len(sep) - 1) = sep

\* x.split(sep): the pieces between the leftmost non-overlapping
\* occurrences of sep, empty pieces kept
RECURSIVE split(_, _)
split(x, sep) ==
    LET hits == { j \in 1 .. (Len(x) - Len(sep) + 1) :
                      SubSeq(x, j, j + Len(sep) - 1) = sep }
    IN  IF hits = {} THEN <<x>>
        ELSE LET j == CHOOSE h \in hits : \A g \in hits : h <= g
             IN  <<SubSeq(x, 1, j - 1)>>
                     \o split(SubSeq(x, j + Len(sep), Len(x)), sep)

\* the month names is_month_str_day_year_format accepts
MonthNames ==
    { <<"J","a","n","u","a","r","y">>, <<"F","e","b","r","u","a","r","y">>,
      <<"M","a","r","c","h">>, <<"A","p","r","i","l">>, <<"M","a","y">>,
      <<"J","u","n","e">>, <<"J","u","l","y">>, <<"A","u","g","u","s","t">>,
      <<"S","e","p","t","e","m","b","e","r">>, <<"O","c","t","o","b","e","r">>,
      <<"N","o","v","e","m","b","e","r">>, <<"D","e","c","e","m","b","e","r">> }

\* Check if the format is '%d-%m-%Y'
is_day_month_year_format(x) ==
    LET parts == split(x, <<"-">>)
    IN  IF Len(parts) # 3 THEN 0
        ELSE LET day   == parts[1]
                 month == parts[2]
                 year  == parts[3]
             IN  IF /\ Len(day) = 2 /\ Len(month) = 2 /\ Len(year) = 4
                    /\ isdigit(day) /\ isdigit(month) /\ isdigit(year)
                 THEN 1
                 ELSE 0

\* variant: hyphens are dropped before the eight digits are checked
is_ddmmyyyy_format_lenient(x) ==
    LET y == SelectSeq(x, LAMBDA c : c # "-")
    IN  IF Len(y) # 8 THEN 0
        ELSE IF /\ isdigit(SubSeq(y, 1, 2))
                /\ isdigit(SubSeq(y, 3, 4))
                /\ isdigit(SubSeq(y, 5, Len(y)))
             THEN 1
             ELSE 0

\* Check if the format is '%d%m%Y'
is_ddmmyyyy_format(x) ==
    IF Len(x) # 8 THEN 0
    ELSE LET day   == SubSeq(x, 1, 2)
             month == SubSeq(x, 3, 4)
             year  == SubSeq(x, 5, Len(x))
         IN  IF isdigit(day) /\ isdigit(month) /\ isdigit(year)
             THEN 1
             ELSE 0

\* Check if the format is '%B %d, %Y'
is_month_str_day_year_format(x) ==
    IF ~Contains(x, <<",", " ">>) THEN 0
    ELSE LET parts == split(x, <<",", " ">>)
         IN  IF Len(parts) # 2 THEN 0
             ELSE LET month_day == parts[1]
                      year      == parts[2]
                  IN  IF Len(year) # 4 \/ ~isdigit(year) THEN 0
                      ELSE LET month_parts == split(month_day, <<" ">>)
                           IN  IF Len(month_parts) # 2 THEN 0
                               ELSE LET month == month_parts[1]
                                        day   == month_parts[2]
                                    IN  IF /\ month \in MonthNames
                                           /\ isdigit(day)
                                           /\ Len(day) <= 2
                                        THEN 1
                                        ELSE 0

combine_known_dates(x) ==
    is_day_month_year_format(x) + is_ddmmyyyy_format(x)
        + is_month_str_day_year_format(x)

\* the pieces the values of the "Dates" column are made of
Tokens == { <<"1">>, <<"1", "2">>, <<"1", "2", "3", "4">>, <<"-">>,
            <<",", " ">>, <<" ">>, <<"M", "a", "y">> }

RECURSIVE Concat(_)
Concat(ts) == IF ts = <<>> THEN <<>> ELSE Head(ts) \o Concat(Tail(ts))

\* the values of the "Dates" column: up to MaxTokens pieces in any order
DateStrings ==
    { Concat(ts) : ts \in UNION { [1 .. n -> Tokens] : n \in 0 .. MaxTokens } }

\* Example 1 runs before the cells of Example 2: the loop has not started
InitDates ==
    /\ InitWith({MaxK},
                [d \in Domains |->
                    IF d = <<-HalfWidth, HalfWidth>> THEN {SampleMax} ELSE {}])
    /\ date \in DateStrings
    /\ known_date = NotApplied

\* known_date = pdf.applymap(combine_known_dates, ...), for one value
ApplyMap ==
    /\ known_date = NotApplied
    /\ known_date' = combine_known_dates(date)
    /\ UNCHANGED date
    /\ UNCHANGED loopVars

NextDates == ApplyMap

SpecDates == InitDates /\ [][NextDates]_vars

\* C13: for every value, combine_known_dates gives 0 or 1, inside the
\* output bounds (0, 1) declared to applymap, because no value passes two
\* of the three format checks.
C13_KnownDateWithinBounds ==
    known_date # NotApplied =>
        /\ known_date \in {0, 1}
        /\ is_day_month_year_format(date) + is_ddmmyyyy_format(date) <= 1
        /\ is_day_month_year_format(date)
               + is_month_str_day_year_format(date) <= 1
        /\ is_ddmmyyyy_format(date) + is_month_str_day_year_format(date) <= 1

C13_Witness ==
    /\ known_date = 1
    /\ is_month_str_day_year_format(date) = 1
    /\ date = <<"M", "a", "y", " ", "1", "2", ",", " ", "1", "2", "3", "4">>

====
